---- MODULE Spec2Model ----
(***************************************************************************)
(* A model of the newsbot content pipeline:                                *)
(*   - NewsScraperManager.scrape_news          (src/scraper.py)            *)
(*   - TextSummarizer.process / _extractive_summarize (src/processor.py)   *)
(*   - QuestionGenerator.process               (src/processor.py)          *)
(*   - ContentProcessorManager.process_news_item(s) (src/processor.py)     *)
(*   - NewsItem.to_dict / from_dict, save_news_items / load_news_items     *)
(*                                             (src/scraper.py)            *)
(*   - GoogleNewsScraper / WebsiteScraper / RSSFeedScraper .scrape         *)
(*                                             (src/scraper.py)            *)
(*   - NewsBot.run                             (src/main.py)               *)
(*   - the posters' authenticate / post, TwitterPoster.format_content      *)
(*                                             (src/poster.py)             *)
(*   - the web UI's save_platform and run_bot  (src/ui.py)                 *)
(*                                                                         *)
(* Text is a sequence of tokens.  Words and punctuation marks are tokens;  *)
(* the whitespace between two sentences is a token too (a gap), so that    *)
(* "the text itself" and "its sentences joined by single spaces" differ.   *)
(* published_date is a naive datetime, modelled as an integer instant;    *)
(* where it is written to a file and read back it carries its parts.       *)
(* Sentiment scores are in tenths (-0.5 is -5).                            *)
(***************************************************************************)
EXTENDS Integers, Sequences, FiniteSets, TLC

VARIABLES
    \* NewsScraperManager.scrape_news
    scraper_results,      \* what each registered scraper's scrape() did
    unique_news_items,    \* the list scrape_news returns
    aggPc,                \* "idle" | "returned" | "raised"
    \* TextSummarizer.process
    text,                 \* the input text
    max_sentences,        \* config "max_sentences"
    min_sentences,        \* config "min_sentences"
    summary,              \* the returned summary
    sumPc,                \* "idle" | "returned"
    \* QuestionGenerator.process
    question_text,        \* the input text
    question_types,       \* config "question_types"
    question,             \* the returned question
    filled_tiers,         \* the tiers whose template-fill step ran (history)
    qPc,                  \* "idle" | "returned" | "raised"
    \* ContentProcessorManager.process_news_items
    news_items,           \* the batch: the NewsItem objects, changed in place
    polarity,             \* what sia.polarity_scores finds for each item's text
    sentiment_threshold,  \* config "sentiment_threshold", in tenths
    item_index,           \* the position of the for loop
    processed_items,      \* the list being returned: references into the batch
    original_items,       \* the batch as it was given (history)
    raised_items,         \* the items whose processing raised (history)
    invoked,              \* for each item, the processors that were called
                          \* on it (history)
    procPc,               \* "idle" | "loop" | "returned"
    \* NewsScraperManager.save_news_items / load_news_items
    saved_items,          \* the NewsItem objects given to save_news_items
    snapshot,             \* the records of the JSON file
    loaded_items,         \* the NewsItem objects load_news_items returns
    serPc,                \* "idle" | "saved" | "loaded"
    \* NewsScraper.scrape of one adapter
    scraper_type,         \* "google" | "website" | "rss"
    pages,                \* what the network serves: the result page, the
                          \* configured sites, or the configured feeds
    max_results,          \* the caller's max_results
    scraped_items,        \* the list scrape returns
    scrapePc,             \* "idle" | "returned"
    \* NewsBot.run
    run_items,            \* what scrape_news returns: the NewsItem objects
    run_polarity,         \* what sia.polarity_scores finds for each item
    run_threshold,        \* config "sentiment_threshold", in tenths
    run_posters,          \* poster_manager.posters: the platforms
    run_dropped,          \* the items process_news_item returned None for
                          \* (history)
    run_processed,        \* processed_items: references into run_items
    processed_snapshot,   \* the items of the <topic>_processed.json file
    image_calls,          \* the items given to generate_image_for_news_item
                          \* (history)
    items_with_images,    \* the list generate_images_for_news_items returns
    images_snapshot,      \* the items of the <topic>_with_images.json file
    post_index,           \* the position of the posting loop
    run_posted,           \* the (item, platform) pairs post_to_platform was
                          \* called with (history)
    runPc,                \* "start" | "process" | "images" | "post" | "done"
    \* one SocialMediaPoster
    poster_kind,          \* "twitter" | "reddit" | "forum" | "instagram"
    credentials,          \* the credentials of the config are all non-empty
    handle,               \* self.api / self.reddit / self.client /
                          \* self.auth_token is set
    authenticated,        \* an authenticate() call has returned True
                          \* (history)
    last_authenticate,    \* what the latest authenticate() returned:
                          \* "none" | "true" | "false"
    last_post,            \* what the latest post() did (history)
    api_invoked,          \* the posting API has been invoked (history)
    post_calls,           \* the number of post() calls so far
    \* the web UI: POST /platform/{platform} and POST /run
    platforms_config,     \* news_bot.config["poster"]["platforms"]
    posters,              \* news_bot.poster_manager.posters: the platforms
    last_run,             \* what the latest POST /run did (history)
    \* TwitterPoster.format_content and TwitterPoster.post
    title_len,            \* len(title)
    content_len,          \* len(content)
    question_len,         \* len(question)
    url_len,              \* len(url)
    formatted_len,        \* len of what format_content returned
    status_len,           \* len of the status text post sent
    fmtPc                 \* "idle" | "formatted" | "posted"

aggVars == <<scraper_results, unique_news_items, aggPc>>
sumVars == <<text, max_sentences, min_sentences, summary, sumPc>>
qVars == <<question_text, question_types, question, filled_tiers, qPc>>
procVars == <<news_items, polarity, sentiment_threshold, item_index,
              processed_items, original_items, raised_items, invoked, procPc>>
serVars == <<saved_items, snapshot, loaded_items, serPc>>
scrapeVars == <<scraper_type, pages, max_results, scraped_items, scrapePc>>
runVars == <<run_items, run_polarity, run_threshold, run_posters, run_dropped,
             run_processed, processed_snapshot, image_calls,
             items_with_images, images_snapshot, post_index, run_posted,
             runPc>>
authVars == <<poster_kind, credentials, handle, authenticated,
              last_authenticate, last_post, api_invoked, post_calls>>
uiVars == <<platforms_config, posters, last_run>>
fmtVars == <<title_len, content_len, question_len, url_len, formatted_len,
             status_len, fmtPc>>
postingVars == <<runVars, authVars, uiVars, fmtVars>>
vars == <<aggVars, sumVars, qVars, procVars, serVars, scrapeVars,
          postingVars>>

----------------------------------------------------------------------------
(* Bounds *)

\* the largest number of candidate items all scrapers return together
MaxItems == 3
\* the largest number of sentences of an input text
MaxSents == 4
\* the largest configured max_sentences / min_sentences
MaxCfg == 3
\* the largest number of tokens of a text given to the question generator
MaxQLen == 2
\* the largest number of items of a batch given to process_news_items
MaxBatch == 2
\* the largest number of items given to save_news_items
MaxSaved == 2
\* the largest number of sites or feeds of an adapter
MaxPages == 2
\* the largest number of results, links or entries of one page
MaxEntries == 2
\* the largest max_results given to scrape
MaxResults == 2
\* the largest number of items scrape_news returns to a run
MaxRunItems == 2
\* the largest number of post() calls on one poster
MaxPosts == 3

----------------------------------------------------------------------------
(* Program constants *)

\* config.get("max_sentences", 3)
DefaultMaxSentences == 3
\* config.get("min_sentences", 1)
DefaultMinSentences == 1
\* config.get("sentiment_threshold", -0.5), in tenths
DefaultSentimentThreshold == -5

----------------------------------------------------------------------------
(* Python built-ins *)

Min(a, b) == IF a <= b THEN a ELSE b
Max(a, b) == IF a >= b THEN a ELSE b

\* seq[:k] for k >= 0
Take(seq, k) == SubSeq(seq, 1, Min(k, Len(seq)))

\* A sort key is a fraction <<numerator, denominator>> with a positive
\* denominator (a float quotient of two small integers, or an instant d as
\* <<d, 1>>); fractions compare as the floats do.
KeyGreater(a, b) == a[1] * b[2] > b[1] * a[2]

\* mutant: x is put before the entries of equal key
RECURSIVE InsertBeforeEqual(_, _)
InsertBeforeEqual(x, s) ==
    IF s = <<>> THEN <<x>>
    ELSE IF ~KeyGreater(Head(s).key, x.key) THEN <<x>> \o s
    ELSE <<Head(s)>> \o InsertBeforeEqual(x, Tail(s))

\* insert entry x into the sorted sequence s behind every entry whose key
\* is not smaller: entries with equal keys keep their arrival order
RECURSIVE InsertStable(_, _)
InsertStable(x, s) ==
    IF s = <<>> THEN <<x>>
    ELSE IF KeyGreater(x.key, Head(s).key) THEN <<x>> \o s
    ELSE <<Head(s)>> \o InsertStable(x, Tail(s))

\* sorted(entries, key=..., reverse=True): a stable sort by decreasing key
\* (Python keeps equal elements in their original order under reverse=True
\* too).  An entry is [key |-> fraction, val |-> element].
RECURSIVE SortedReverse(_)
SortedReverse(entries) ==
    IF entries = <<>> THEN <<>>
    ELSE InsertStable(entries[Len(entries)],
                      SortedReverse(SubSeq(entries, 1, Len(entries) - 1)))

Vals(entries) == [k \in DOMAIN entries |-> entries[k].val]

\* "".join / list.extend over a list of lists
RECURSIVE Concat(_)
Concat(lists) ==
    IF lists = <<>> THEN <<>> ELSE Head(lists) \o Concat(Tail(lists))

\* all sequences over S of length at most n
SeqsUpTo(S, n) == UNION {[1..k -> S] : k \in 0..n}

----------------------------------------------------------------------------
(* NewsScraperManager.scrape_news                                          *)

\* the scrapers registered by _init_default_scrapers, in registration order
scrapers == <<"google", "website", "rss">>

Urls == {"http://x.com/a", "http://x.com/b"}
Dates == {1, 2, 3}

\* the NewsItem objects scraper s can create: url and published_date vary,
\* source tells the scrapers apart.  dated tells whether the scraper found
\* a timestamp; when it did not, published_date is what datetime.now()
\* returned when the item was created (lines 48, 203, 383, 469).  Every
\* instant of Dates is at or before the one at which scrape_news sorts.
NewsItemsOf(s) ==
    [url : Urls, source : {s}, published_date : Dates, dated : BOOLEAN]

\* the clock does not run backwards: the items are created in the order of
\* the list, so of two items without a timestamp the later one does not
\* have the earlier datetime.now()
ClockOrdered(items) ==
    \A i, j \in DOMAIN items :
        (i < j /\ ~items[i].dated /\ ~items[j].dated)
            => items[i].published_date <= items[j].published_date

\* scraper.scrape(topic, max_results) either raises or returns a list
Raised == [raised |-> TRUE, items |-> <<>>]
Returned(items) == [raised |-> FALSE, items |-> items]
ScrapeOutcomes(s, room) ==
    {Raised} \cup {Returned(l) : l \in SeqsUpTo(NewsItemsOf(s), room)}

\* mutant: the loop without its try/except
ScrapeOneNoTry(result) ==
    IF result.raised
    THEN [escapes |-> TRUE, items |-> <<>>]
    ELSE [escapes |-> FALSE, items |-> result.items]

\* lines 668-672, one pass of the loop: the try/except catches whatever the
\* scraper raises (the error is logged), so nothing escapes the loop and a
\* scraper that raises extends all_news_items by nothing
ScrapeOne(result) ==
    IF result.raised
    THEN [escapes |-> FALSE, items |-> <<>>]
    ELSE [escapes |-> FALSE, items |-> result.items]

\* lines 665-672: all_news_items after the loop over self.scrapers, or the
\* exception that left it
RECURSIVE AllNewsItems(_)
AllNewsItems(results) ==
    IF results = <<>> THEN [escapes |-> FALSE, items |-> <<>>]
    ELSE LET one == ScrapeOne(Head(results)) IN
         IF one.escapes THEN [escapes |-> TRUE, items |-> <<>>]
         ELSE LET rest == AllNewsItems(Tail(results)) IN
              [escapes |-> rest.escapes,
               items |-> IF rest.escapes THEN <<>> ELSE one.items \o rest.items]

\* mutant: a later item with the same url replaces the earlier one
RECURSIVE RemoveDuplicatesKeepLast(_, _)
RemoveDuplicatesKeepLast(all_news_items, unique_urls) ==
    IF all_news_items = <<>> THEN <<>>
    ELSE LET item == Head(all_news_items)
             rest == Tail(all_news_items) IN
         IF \E k \in DOMAIN rest : rest[k].url = item.url
         THEN RemoveDuplicatesKeepLast(rest, unique_urls)
         ELSE <<item>> \o RemoveDuplicatesKeepLast(rest, unique_urls)

\* lines 674-681: keep an item only if its url was not seen before
RECURSIVE RemoveDuplicates(_, _)
RemoveDuplicates(all_news_items, unique_urls) ==
    IF all_news_items = <<>> THEN <<>>
    ELSE LET item == Head(all_news_items) IN
         IF item.url \notin unique_urls
         THEN <<item>> \o RemoveDuplicates(Tail(all_news_items),
                                           unique_urls \cup {item.url})
         ELSE RemoveDuplicates(Tail(all_news_items), unique_urls)

\* line 684: key=lambda x: x.published_date
DateKey(item) == <<item.published_date, 1>>

\* mutant: the sort without reverse=True
SortNewsItemsOldestFirst(items) ==
    Vals(SortedReverse([k \in DOMAIN items |->
                          [key |-> <<0 - items[k].published_date, 1>>,
                           val |-> items[k]]]))

\* lines 683-684: unique_news_items.sort(key=..., reverse=True)
SortNewsItems(items) ==
    Vals(SortedReverse([k \in DOMAIN items |->
                          [key |-> DateKey(items[k]), val |-> items[k]]]))

\* lines 654-686: what scrape_news does for the given scraper results
ScrapeNewsResult(results) ==
    LET all_news_items == AllNewsItems(results) IN
    IF all_news_items.escapes
    THEN [raised |-> TRUE, items |-> <<>>]
    ELSE [raised |-> FALSE,
          items |-> SortNewsItems(RemoveDuplicates(all_news_items.items, {}))]

ScrapeNews ==
    /\ aggPc = "idle"
    /\ \E r1 \in ScrapeOutcomes(scrapers[1], MaxItems) :
       \E r2 \in ScrapeOutcomes(scrapers[2], MaxItems - Len(r1.items)) :
       \E r3 \in ScrapeOutcomes(scrapers[3],
                                MaxItems - Len(r1.items) - Len(r2.items)) :
          LET res == ScrapeNewsResult(<<r1, r2, r3>>) IN
          /\ ClockOrdered(r1.items \o r2.items \o r3.items)
          /\ scraper_results' = <<r1, r2, r3>>
          /\ unique_news_items' = res.items
          /\ aggPc' = IF res.raised THEN "raised" ELSE "returned"
    /\ UNCHANGED <<sumVars, qVars, procVars, serVars, scrapeVars, postingVars>>

----------------------------------------------------------------------------
(* TextSummarizer                                                          *)

\* whitespace between sentences: a single space, or a line break
Whitespace == {" ", "\n"}
\* sentence-ending punctuation
Terminators == {".", "?", "!"}
\* the tokens str.isalnum() is false for
NotAlnum == Terminators \cup {",", "'s"} \cup Whitespace

\* str.lower() on one token
LowerOf == [The |-> "the", It |-> "it", Ok |-> "ok", Quick |-> "quick",
            Fox |-> "fox"]
Lower(tok) == IF tok \in DOMAIN LowerOf THEN LowerOf[tok] ELSE tok
\* text.lower()
lower(t) == [k \in DOMAIN t |-> Lower(t[k])]

isalnum(tok) == tok \notin NotAlnum

\* stopwords.words("english"), the part of it the texts below use
stop_words == {"the", "it", "is", "was", "so", "a"}

\* nltk sent_tokenize: a sentence ends at whitespace that follows
\* sentence-ending punctuation; that whitespace belongs to no sentence
RECURSIVE sent_tokenize(_)
sent_tokenize(t) ==
    IF t = <<>> THEN <<>>
    ELSE LET ends == {k \in 1..(Len(t) - 1) :
                         t[k] \in Terminators /\ t[k + 1] \in Whitespace} IN
         IF ends = {} THEN <<t>>
         ELSE LET e == CHOOSE k \in ends : \A j \in ends : k <= j IN
              <<SubSeq(t, 1, e)>> \o sent_tokenize(SubSeq(t, e + 2, Len(t)))

\* nltk word_tokenize: words and punctuation marks, no whitespace
word_tokenize(t) == SelectSeq(t, LAMBDA tok : tok \notin Whitespace)

\* " ".join(parts)
RECURSIVE JoinSpace(_)
JoinSpace(parts) ==
    IF parts = <<>> THEN <<>>
    ELSE IF Len(parts) = 1 THEN parts[1]
    ELSE parts[1] \o <<" ">> \o JoinSpace(Tail(parts))

\* lines 132-133: the content words of the whole text
ContentWords(t) ==
    SelectSeq(word_tokenize(lower(t)),
              LAMBDA w : isalnum(w) /\ w \notin stop_words)

\* line 136: FreqDist(words)[w]
FreqDist(words, w) == Cardinality({k \in DOMAIN words : words[k] = w})

\* lines 141-142: the words of one sentence (stop-words are kept here)
SentenceWords(sentence) ==
    SelectSeq(word_tokenize(lower(sentence)), isalnum)

\* mutant: a sentence of exactly three words is skipped as well
TooShortAtThree(sentence_words) == Len(sentence_words) <= 3

\* lines 144-146: "skip very short sentences"
TooShort(sentence_words) == Len(sentence_words) < 3

RECURSIVE SumFreq(_, _)
SumFreq(sentence_words, words) ==
    IF sentence_words = <<>> THEN 0
    ELSE FreqDist(words, Head(sentence_words))
         + SumFreq(Tail(sentence_words), words)

\* lines 148-150: score / len(sentence_words), as a fraction; a word that
\* is not in freq_dist counts 0
SentenceScore(sentence, words) ==
    <<SumFreq(SentenceWords(sentence), words), Len(SentenceWords(sentence))>>

\* lines 139-150: sentence_scores, a dict in insertion order: one entry per
\* sentence that is not skipped, by increasing index
RECURSIVE SentenceScores(_, _, _)
SentenceScores(sentences, words, i) ==
    IF i > Len(sentences) THEN <<>>
    ELSE (IF TooShort(SentenceWords(sentences[i])) THEN <<>>
          ELSE <<[key |-> SentenceScore(sentences[i], words), val |-> i]>>)
         \o SentenceScores(sentences, words, i + 1)

\* mutant: the count is not capped by max_sentences
NumSentencesNoCap(n, maxS, minS) == Max(minS, n \div 4)

\* mutant: min_sentences is not a floor of the count
NumSentencesNoFloor(n, maxS, minS) == Min(maxS, n \div 4)

\* line 153
NumSentences(n, maxS, minS) == Min(maxS, Max(minS, n \div 4))

\* mutant: a text of exactly min_sentences sentences is summarized
AlreadyShortStrict(n, minS) == n < minS

\* line 127
AlreadyShort(n, minS) == n <= minS

\* mutant: the selected indices stay in score order
KeepScoreOrder(top_indices, n) == top_indices

\* line 157: sorted(top_indices), for indices (distinct) of a list of n
\* sentences
SortedIndices(top_indices, n) ==
    SelectSeq([k \in 1..n |-> k],
              LAMBDA k : \E j \in DOMAIN top_indices : top_indices[j] = k)

\* lines 113-162
extractive_summarize(t, maxS, minS) ==
    LET sentences == sent_tokenize(t) IN
    IF AlreadyShort(Len(sentences), minS) THEN t
    ELSE LET words == ContentWords(t)
             sentence_scores == SentenceScores(sentences, words, 1)
             num_sentences == NumSentences(Len(sentences), maxS, minS)
             top == Take(Vals(SortedReverse(sentence_scores)), num_sentences)
             top_indices == SortedIndices(top, Len(sentences))
         IN JoinSpace([k \in DOMAIN top_indices |-> sentences[top_indices[k]]])

\* lines 92-111, method "extractive"
SummarizerProcess(t, maxS, minS) ==
    IF t = <<>> THEN <<>> ELSE extractive_summarize(t, maxS, minS)

\* the sentences the input texts are made of
SentencePool ==
    { <<"Quick", "fox", "jumps", ".">>,             \* 3 words, 3 content words
      <<"The", "fox", "is", "the", "dog", ".">>,    \* 5 words, 2 content words
      <<"It", "was", "so", ".">>,                   \* 3 words, all stop-words
      <<"Ok", ".">> }                               \* 1 word

\* two different sentences that score the same in any text made of them
TiedSentences ==
    { <<"Quick", "fox", "jumps", ".">>,
      <<"Quick", "dog", "jumps", ".">> }

\* the sentences, with the same whitespace between each two
RECURSIVE BuildText(_, _)
BuildText(sents, gap) ==
    IF sents = <<>> THEN <<>>
    ELSE IF Len(sents) = 1 THEN sents[1]
    ELSE sents[1] \o <<gap>> \o BuildText(Tail(sents), gap)

Texts ==
    {BuildText(ss, g) : ss \in SeqsUpTo(SentencePool, MaxSents)
                                \cup SeqsUpTo(TiedSentences, MaxSents),
                        g \in Whitespace}

Summarize ==
    /\ sumPc = "idle"
    /\ summary' = SummarizerProcess(text, max_sentences, min_sentences)
    /\ sumPc' = "returned"
    /\ UNCHANGED <<text, max_sentences, min_sentences>>
    /\ UNCHANGED <<aggVars, qVars, procVars, serVars, scrapeVars, postingVars>>

----------------------------------------------------------------------------
(* QuestionGenerator                                                       *)

\* spaCy's named entities: the label_ of each token that is one
EntityLabel == [Alice |-> "PERSON", Acme |-> "ORG", Paris |-> "GPE",
                Olympics |-> "EVENT", iPhone |-> "PRODUCT",
                Monday |-> "DATE"]
\* the tokens spaCy tags pos_ == "NOUN"
Nouns == {"fox", "dog", "news"}

\* line 266: list(doc.ents), in text order
Entities(t) ==
    LET toks == SelectSeq(t, LAMBDA tok : tok \in DOMAIN EntityLabel) IN
    [k \in DOMAIN toks |-> [text |-> toks[k], label_ |-> EntityLabel[toks[k]]]]

\* line 328: [token.text for token in doc if token.pos_ == "NOUN"]
NounsOf(t) == SelectSeq(t, LAMBDA tok : tok \in Nouns)

\* the elements random.choice(seq) can return
Choices(seq) == {seq[k] : k \in DOMAIN seq}

\* line 271
interesting_types == {"PERSON", "ORG", "GPE", "EVENT", "PRODUCT", "WORK_OF_ART"}

\* lines 272-275
InterestingEntities(entities) ==
    LET interesting == SelectSeq(entities,
                                 LAMBDA ent : ent.label_ \in interesting_types)
    IN IF interesting = <<>> THEN entities ELSE interesting

\* lines 281-310: the templates for an entity, each a string cut into
\* pieces: the literal text, the entity's text, and the last character
EntityTemplates(entity) ==
    LET e == entity.text IN
    IF entity.label_ = "PERSON" THEN
        { <<"What role did ", e, " play in this situation", "?">>,
          <<"Why is ", e, " significant in this context", "?">>,
          <<"How might ", e, "'s actions impact future developments", "?">> }
    ELSE IF entity.label_ = "ORG" THEN
        { <<"What are the implications of ", e, "'s involvement", "?">>,
          <<"How might ", e, "'s position evolve in the future", "?">>,
          <<"Why is ", e, "'s role important in this context", "?">> }
    ELSE IF entity.label_ = "GPE" THEN
        { <<"How might these developments affect ", e, "?">>,
          <<"What are the broader implications for ", e, "?">>,
          <<"Why is ", e, " significant in this situation", "?">> }
    ELSE IF entity.label_ = "EVENT" THEN
        { <<"What might be the long-term consequences of ", e, "?">>,
          <<"How could ", e, " shape future developments", "?">>,
          <<"Why is ", e, " considered significant", "?">> }
    ELSE
        { <<"What makes ", e, " significant in this context", "?">>,
          <<"How might ", e, " influence future developments", "?">>,
          <<"Why is ", e, " important to consider", "?">> }

\* lines 253-312: the questions _generate_entity_question can return; ""
\* (the empty sequence) when the text has no entity
EntityQuestions(t) ==
    IF Entities(t) = <<>> THEN {<<>>}
    ELSE UNION {EntityTemplates(entity) :
                    entity \in Choices(InterestingEntities(Entities(t)))}

\* lines 338-361: the templates for a noun and a question type
NounTemplates(main_noun, question_type) ==
    LET n == main_noun IN
    IF question_type = "what" THEN
        { <<"What are the broader implications of this ", n, "?">>,
          <<"What might be the next developments in this ", n, "?">>,
          <<"What do you think about this ", n, "?">> }
    ELSE IF question_type = "why" THEN
        { <<"Why is this ", n, " significant", "?">>,
          <<"Why might this ", n, " matter in the long run", "?">>,
          <<"Why should we pay attention to this ", n, "?">> }
    ELSE IF question_type = "how" THEN
        { <<"How might this ", n, " affect future developments", "?">>,
          <<"How could this ", n, " change our understanding", "?">>,
          <<"How do you see this ", n, " evolving", "?">> }
    ELSE
        { <<"Do you think this ", n, " will have lasting impact", "?">>,
          <<"Is this ", n, " as important as it seems", "?">>,
          <<"Could this ", n, " lead to significant changes", "?">> }

\* lines 365-385
GenericQuestions ==
    { <<"What do you think about this development", "?">>,
      <<"How might this news impact the broader context", "?">>,
      <<"Why is this news significant", "?">>,
      <<"What could be the long-term implications", "?">>,
      <<"How might this situation evolve in the future", "?">>,
      <<"Do you see this as a positive or negative development", "?">>,
      <<"What other factors might be influencing this situation", "?">>,
      <<"How does this compare to similar situations in the past", "?">>,
      <<"What questions does this raise for you", "?">>,
      <<"What might be missing from this story", "?">> }

\* an outcome of a call: whether it raised, the string it returned, and the
\* tiers ("entity", "noun", "generic") whose random.choice(templates) ran
\* a return before any template was filled
QReturns(q) == [raised |-> FALSE, question |-> q, tiers |-> {}]
\* a return of a filled template of the given tier
QFills(tier, q) == [raised |-> FALSE, question |-> q, tiers |-> {tier}]
\* random.choice of an empty question_types raises IndexError
QRaises == [raised |-> TRUE, question |-> <<>>, tiers |-> {}]

\* lines 253-312: what _generate_entity_question can do
EntityOutcomes(t) ==
    {IF q = <<>> THEN QReturns(q) ELSE QFills("entity", q) :
        q \in EntityQuestions(t)}

\* mutant: the nouns of the text are not looked at
TemplateOutcomesGenericOnly(t, types) ==
    {QFills("generic", q) : q \in GenericQuestions}

\* lines 314-363: what _generate_template_question can do
TemplateOutcomes(t, types) ==
    IF NounsOf(t) = <<>> THEN {QFills("generic", q) : q \in GenericQuestions}
    ELSE IF types = {} THEN {QRaises}
    ELSE {QFills("noun", q) :
            q \in UNION {NounTemplates(main_noun, question_type) :
                            main_noun \in Choices(NounsOf(t)),
                            question_type \in types}}

\* mutant: the entity question is returned even when it is empty
QuestionOutcomesNoFallback(t, types) ==
    IF t = <<>> THEN {QReturns(<<>>)}
    ELSE EntityOutcomes(t)

\* lines 232-251: what QuestionGenerator.process can do: the entity
\* question, and when that is "" whatever _generate_template_question does
QuestionOutcomes(t, types) ==
    IF t = <<>> THEN {QReturns(<<>>)}
    ELSE UNION {IF e.question # <<>> THEN {e}
                ELSE {[o EXCEPT !.tiers = e.tiers \cup o.tiers] :
                         o \in TemplateOutcomes(t, types)} :
                    e \in EntityOutcomes(t)}

\* the tokens of the texts given to the question generator
QTokens == DOMAIN EntityLabel \cup {"fox", "news", "the"}
\* the configured question types: any of the three known ones, and one the
\* code has no templates for
QuestionTypeSets == SUBSET {"what", "why", "how", "who"}

GenerateQuestion ==
    /\ qPc = "idle"
    /\ \E out \in QuestionOutcomes(question_text, question_types) :
          /\ question' = out.question
          /\ filled_tiers' = out.tiers
          /\ qPc' = IF out.raised THEN "raised" ELSE "returned"
    /\ UNCHANGED <<question_text, question_types>>
    /\ UNCHANGED <<aggVars, sumVars, procVars, serVars, scrapeVars, postingVars>>

----------------------------------------------------------------------------
(* ContentProcessorManager                                                 *)

\* an attribute that __init__ does not create: absent until it is assigned
NoAttribute == <<>>
Attribute(value) == <<value>>

\* a NewsItem as a scraper creates it (NewsItem.__init__): no question, not
\* processed, and no sentiment attribute yet; the fields the processors
\* never read have the same values in every item
NewItem(title, content, summary_) ==
    [title |-> title, content |-> content, summary |-> summary_,
     url |-> "http://x.com/a", source |-> "Source", published_date |-> 1,
     image_url |-> "http://x.com/a.png",
     question |-> <<>>, processed |-> FALSE, sentiment |-> NoAttribute]

TitleText == <<"Acme", "news">>
LongContent ==
    BuildText(<< <<"Quick", "fox", "jumps", ".">>,
                 <<"The", "fox", "is", "the", "dog", ".">>,
                 <<"Ok", ".">> >>, " ")
ShortSentences == BuildText(<< <<"Ok", ".">>, <<"Ok", ".">> >>, " ")
Snippet == <<"Paris", "news", ".">>

\* the description element of a feed entry: four sentences
Description ==
    BuildText(<< <<"Quick", "fox", "jumps", ".">>,
                 <<"The", "fox", "is", "the", "dog", ".">>,
                 <<"It", "was", "so", ".">>,
                 <<"Ok", ".">> >>, " ")

\* scraper.py lines 409-413 and 496-498: the first three of
\* re.split(r'(?<=[.!?])\s+', content), joined by single spaces; the pattern
\* splits at the whitespace that follows sentence-ending punctuation
FirstSentences(content) == JoinSpace(Take(sent_tokenize(content), 3))

\* scraper.py lines 376-426: the item WebsiteScraper._scrape_article
\* creates for a page
WebsiteItem(title, content) ==
    NewItem(title, content,
            IF content # <<>> THEN FirstSentences(content) ELSE <<>>)

\* scraper.py lines 460-526: the item RSSFeedScraper.scrape creates for an
\* entry: the summary is the lower-cased description, or the first
\* sentences of the content when there is no description
RssItem(title, description, content) ==
    NewItem(title, content,
            IF description # <<>> THEN lower(description)
            ELSE IF content # <<>> THEN FirstSentences(content) ELSE <<>>)

\* the items of the batches
ItemKinds ==
    { NewItem(TitleText, LongContent, <<>>),      \* an article with its body
      NewItem(TitleText, <<>>, <<>>),             \* a title alone
      NewItem(TitleText, <<>>, Snippet),          \* a search result with a snippet
      NewItem(TitleText, ShortSentences, <<>>),   \* a body of very short sentences
      NewItem(<<>>, <<>>, <<>>),                  \* nothing usable
      WebsiteItem(TitleText, LongContent),        \* a scraped page
      RssItem(TitleText, Description, LongContent) } \* a feed entry

\* compound scores, in tenths
Compounds == {-8, -5, -3}
Thresholds == {DefaultSentimentThreshold, 0}

\* "a or b" on strings
Or(a, b) == IF a # <<>> THEN a ELSE b

\* line 445: the text whose sentiment is scored
SentimentText(item) == Or(Or(item.content, item.summary), item.title)

\* line 446: the compound scores sia.polarity_scores can find for the item:
\* VADER scores a text without words 0.0
Polarities(item) == IF SentimentText(item) = <<>> THEN {0} ELSE Compounds

\* mutant: an item exactly at the threshold is dropped too
BelowThresholdOrAt(compound, threshold) == compound <= threshold

\* line 449
BelowThreshold(compound, threshold) == compound < threshold

\* mutant: the summary replaces the content
WithSummaryForContent(item, maxS, minS) ==
    IF item.summary = <<>> /\ item.content # <<>>
    THEN [item EXCEPT !.content = SummarizerProcess(item.content, maxS, minS),
                      !.summary = SummarizerProcess(item.content, maxS, minS)]
    ELSE IF item.summary = <<>>
    THEN [item EXCEPT !.summary = item.title]
    ELSE item

\* lines 453-457
WithSummary(item, maxS, minS) ==
    IF item.summary = <<>> /\ item.content # <<>>
    THEN [item EXCEPT !.summary = SummarizerProcess(item.content, maxS, minS)]
    ELSE IF item.summary = <<>>
    THEN [item EXCEPT !.summary = item.title]
    ELSE item

\* lines 459-462
TextForQuestion(item) ==
    Or(IF item.summary # <<>> THEN item.summary ELSE item.content, item.title)

\* line 454: whether self.summarizer.process is called for the item
SummarizerCalled(item) == item.summary = <<>> /\ item.content # <<>>

\* lines 453-467: the calls of the processors on an item that passed the
\* gate, and what they leave: the item afterwards, how the call ended
\* ("item": returned the item, "raised": raised), and the processors called
Enrich(scored, maxS, minS, types) ==
    LET summarized == WithSummary(scored, maxS, minS)
        calls == (IF SummarizerCalled(scored) THEN {"summarizer"} ELSE {})
                 \cup {"question_generator"} IN
    { IF out.raised
      THEN [ended |-> "raised", item |-> summarized, calls |-> calls]
      ELSE [ended |-> "item",
            item |-> [summarized EXCEPT !.question = out.question,
                                        !.processed = TRUE],
            calls |-> calls] :
        out \in QuestionOutcomes(TextForQuestion(summarized), types) }

\* mutant: the item is summarized and given a question first, and the gate
\* decides afterwards
ProcessNewsItemOutcomesGateLast(item, compound, threshold, maxS, minS, types) ==
    LET scored == [item EXCEPT
                      !.sentiment = Attribute([compound |-> compound])] IN
    { IF out.ended = "item" /\ BelowThreshold(compound, threshold)
      THEN [out EXCEPT !.ended = "none"] ELSE out :
        out \in Enrich(scored, maxS, minS, types) }

\* lines 436-469: what process_news_item can do to an item whose text has
\* the given compound score: the item afterwards, how the call ended
\* ("none": returned None, "item": returned the item, "raised": raised),
\* and the processors it called
ProcessNewsItemOutcomes(item, compound, threshold, maxS, minS, types) ==
    LET scored == [item EXCEPT
                      !.sentiment = Attribute([compound |-> compound])] IN
    IF BelowThreshold(compound, threshold)
    THEN {[ended |-> "none", item |-> scored, calls |-> {}]}
    ELSE Enrich(scored, maxS, minS, types)

\* line 481 and the call of process_news_items
StartBatch ==
    /\ procPc = "idle"
    /\ procPc' = "loop"
    /\ item_index' = 1
    /\ processed_items' = <<>>
    /\ UNCHANGED <<news_items, polarity, sentiment_threshold, original_items,
                   raised_items, invoked>>
    /\ UNCHANGED <<aggVars, sumVars, qVars, serVars, scrapeVars, postingVars>>

\* lines 483-490: one pass of the loop
ProcessNext ==
    /\ procPc = "loop"
    /\ item_index <= Len(news_items)
    /\ \E out \in ProcessNewsItemOutcomes(news_items[item_index],
                                          polarity[item_index],
                                          sentiment_threshold,
                                          max_sentences, min_sentences,
                                          question_types) :
          /\ news_items' = [news_items EXCEPT ![item_index] = out.item]
          /\ processed_items' =
                 IF out.ended = "none" THEN processed_items
                 ELSE Append(processed_items, item_index)
          /\ raised_items' =
                 IF out.ended = "raised" THEN raised_items \cup {item_index}
                 ELSE raised_items
          /\ invoked' = [invoked EXCEPT ![item_index] = out.calls]
    /\ item_index' = item_index + 1
    /\ UNCHANGED <<polarity, sentiment_threshold, original_items, procPc>>
    /\ UNCHANGED <<aggVars, sumVars, qVars, serVars, scrapeVars, postingVars>>

\* line 492
ReturnProcessed ==
    /\ procPc = "loop"
    /\ item_index > Len(news_items)
    /\ procPc' = "returned"
    /\ UNCHANGED <<news_items, polarity, sentiment_threshold, item_index,
                   processed_items, original_items, raised_items, invoked>>
    /\ UNCHANGED <<aggVars, sumVars, qVars, serVars, scrapeVars, postingVars>>

----------------------------------------------------------------------------
(* NewsItem.to_dict / from_dict, save_news_items / load_news_items          *)
(*                                                                         *)
(* Here a datetime carries its parts: the date (a day number), the time of *)
(* day (seconds), the microsecond, and the utc offset in minutes of an     *)
(* aware datetime (<<>> for a naive one).  A string field is a string.     *)

\* datetime.isoformat(): "YYYY-MM-DDTHH:MM:SS", then ".ffffff" only when
\* microsecond is not 0, then "+HH:MM" only when the datetime is aware.
\* The string is the sequence of its parts.
isoformat(dt) ==
    <<[part |-> "date", value |-> dt.day],
      [part |-> "time", value |-> dt.second]>>
    \o (IF dt.microsecond # 0
        THEN <<[part |-> "fraction", value |-> dt.microsecond]>> ELSE <<>>)
    \o (IF dt.utcoffset # <<>>
        THEN <<[part |-> "offset", value |-> dt.utcoffset[1]]>> ELSE <<>>)

\* what a call that can raise ValueError gives back
ValueError == [ok |-> FALSE, value |-> <<>>]
Parsed(v) == [ok |-> TRUE, value |-> <<v>>]

\* mutant: the utc offset of the string is not read
fromisoformatNaive(date_string) ==
    IF Len(date_string) >= 2 /\ date_string[1].part = "date"
       /\ date_string[2].part = "time"
    THEN Parsed([day |-> date_string[1].value,
                 second |-> date_string[2].value,
                 microsecond |->
                     IF Len(date_string) >= 3
                        /\ date_string[3].part = "fraction"
                     THEN date_string[3].value ELSE 0,
                 utcoffset |-> <<>>])
    ELSE ValueError

\* datetime.fromisoformat(): the date and the time are required, a missing
\* fraction is microsecond 0, a missing offset is a naive datetime; any
\* other string raises ValueError
fromisoformat(date_string) ==
    LET n == Len(date_string)
        rest == SubSeq(date_string, 3, n)
        restParts == [k \in DOMAIN rest |-> rest[k].part] IN
    IF n >= 2 /\ date_string[1].part = "date" /\ date_string[2].part = "time"
       /\ restParts \in {<<>>, <<"fraction">>, <<"offset">>,
                         <<"fraction", "offset">>}
    THEN Parsed([day |-> date_string[1].value,
                 second |-> date_string[2].value,
                 microsecond |->
                     IF restParts # <<>> /\ restParts[1] = "fraction"
                     THEN rest[1].value ELSE 0,
                 utcoffset |->
                     IF restParts # <<>> /\ restParts[Len(rest)] = "offset"
                     THEN <<rest[Len(rest)].value>> ELSE <<>>])
    ELSE ValueError

\* lines 35-54: NewsItem.__init__; now is what datetime.now() returns
NewsItem(title, url, source, published_date, content, summary_, image_url, now) ==
    [title |-> title, url |-> url, source |-> source,
     published_date |-> IF published_date # <<>> THEN published_date[1]
                        ELSE now,
     content |-> content, summary |-> summary_, image_url |-> image_url,
     processed |-> FALSE, question |-> "", generated_image_path |-> "",
     sentiment |-> NoAttribute]

\* lines 56-69
to_dict(item) ==
    [title |-> item.title, url |-> item.url, source |-> item.source,
     published_date |-> isoformat(item.published_date),
     content |-> item.content, summary |-> item.summary,
     image_url |-> item.image_url, processed |-> item.processed,
     question |-> item.question,
     generated_image_path |-> item.generated_image_path]

\* lines 71-93, for a record that has every key
from_dict(data, now) ==
    LET item == NewsItem(data.title, data.url, data.source, <<>>,
                         data.content, data.summary, data.image_url, now)
        parsed == fromisoformat(data.published_date) IN
    [item EXCEPT !.published_date = IF parsed.ok THEN parsed.value[1] ELSE now,
                 !.processed = data.processed,
                 !.question = data.question,
                 !.generated_image_path = data.generated_image_path]

\* the datetimes of the saved items
DateTimes ==
    [day : {1, 2}, second : {30}, microsecond : {0, 5},
     utcoffset : {<<>>, <<0>>, <<60>>}]
\* what datetime.now() can return while a file is loaded
Nows == [day : {3}, second : {0}, microsecond : {7}, utcoffset : {<<>>}]

\* an item as a scraper created it
RawItem(published_date) ==
    NewsItem("Title", "http://x.com/a", "Source", <<published_date>>,
             "Body.", "", "http://x.com/a.png", published_date)
\* an item after process_news_item (lines 447, 454-467) and after the image
\* generator
EnrichedItem(published_date) ==
    [RawItem(published_date) EXCEPT
        !.sentiment = Attribute([compound |-> -3]),
        !.summary = "Body.", !.question = "Why is this news significant?",
        !.processed = TRUE, !.generated_image_path = "output/a.png"]

SavedItems ==
    {RawItem(d) : d \in DateTimes} \cup {EnrichedItem(d) : d \in DateTimes}

\* lines 688-701: save_news_items (json.dump writes the records as they are)
SaveNewsItems ==
    /\ serPc = "idle"
    /\ snapshot' = [k \in DOMAIN saved_items |-> to_dict(saved_items[k])]
    /\ serPc' = "saved"
    /\ UNCHANGED <<saved_items, loaded_items>>
    /\ UNCHANGED <<aggVars, sumVars, qVars, procVars, scrapeVars, postingVars>>

\* lines 703-723: load_news_items of the file that was written
LoadNewsItems ==
    /\ serPc = "saved"
    /\ \E now \in Nows :
          loaded_items' = [k \in DOMAIN snapshot |-> from_dict(snapshot[k], now)]
    /\ serPc' = "loaded"
    /\ UNCHANGED <<saved_items, snapshot>>
    /\ UNCHANGED <<aggVars, sumVars, qVars, procVars, scrapeVars, postingVars>>

----------------------------------------------------------------------------
(* GoogleNewsScraper.scrape, WebsiteScraper.scrape, RSSFeedScraper.scrape   *)
(*                                                                         *)
(* A page is what one request gives: the Google result page, the relevant  *)
(* links of one site, or the entries of one feed.  The request can raise.  *)
(* An entry is usable when the adapter makes a NewsItem of it: a result    *)
(* with a title and a link; a link whose _scrape_article returns an        *)
(* article; a feed entry that is on the topic, has a link and is not too   *)
(* old.  The other entries are skipped (continue, None, or an exception    *)
(* caught by the inner try).  A scraped item is named by the page and the  *)
(* position it comes from.                                                 *)

EntryLists == SeqsUpTo([usable : BOOLEAN], MaxEntries)
Pages ==
    {[raises |-> FALSE, entries |-> l] : l \in EntryLists}
    \cup {[raises |-> TRUE, entries |-> <<>>]}

\* the inner loops of WebsiteScraper.scrape (lines 310-321) and
\* RSSFeedScraper.scrape (lines 454-533), from entry k on: a usable entry
\* is appended, and the loop breaks once len(news_items) >= max_results
RECURSIVE AppendUntil(_, _, _, _, _)
AppendUntil(entries, p, k, maxR, items) ==
    IF k > Len(entries) THEN items
    ELSE IF entries[k].usable
    THEN LET appended == Append(items, <<p, k>>) IN
         IF Len(appended) >= maxR THEN appended
         ELSE AppendUntil(entries, p, k + 1, maxR, appended)
    ELSE AppendUntil(entries, p, k + 1, maxR, items)

\* lines 162-241: one request; the results are cut to max_results first,
\* then each usable one is appended; an exception of the request returns []
GoogleScrape(pgs, maxR) ==
    IF pgs = <<>> \/ pgs[1].raises THEN <<>>
    ELSE LET results == Take(pgs[1].entries, maxR) IN
         SelectSeq([k \in DOMAIN results |-> <<1, k>>],
                   LAMBDA it : results[it[2]].usable)

\* lines 253-332, from site p on: the relevant links of a site are cut to
\* max_results; a site whose request raises is skipped by continue
RECURSIVE WebsiteScrape(_, _, _, _)
WebsiteScrape(pgs, p, maxR, items) ==
    IF p > Len(pgs) THEN items
    ELSE IF pgs[p].raises THEN WebsiteScrape(pgs, p + 1, maxR, items)
    ELSE LET relevant_links == Take(pgs[p].entries, maxR)
             after == AppendUntil(relevant_links, p, 1, maxR, items) IN
         IF Len(after) >= maxR THEN after
         ELSE WebsiteScrape(pgs, p + 1, maxR, after)

\* lines 441-544, from feed p on: a feed whose parsing raises is skipped by
\* continue
RECURSIVE RSSScrape(_, _, _, _)
RSSScrape(pgs, p, maxR, items) ==
    IF p > Len(pgs) THEN items
    ELSE IF pgs[p].raises THEN RSSScrape(pgs, p + 1, maxR, items)
    ELSE LET after == AppendUntil(pgs[p].entries, p, 1, maxR, items) IN
         IF Len(after) >= maxR THEN after
         ELSE RSSScrape(pgs, p + 1, maxR, after)

\* scraper.scrape(topic, max_results)
Scrape ==
    /\ scrapePc = "idle"
    /\ scraped_items' =
           IF scraper_type = "google" THEN GoogleScrape(pages, max_results)
           ELSE IF scraper_type = "website"
           THEN WebsiteScrape(pages, 1, max_results, <<>>)
           ELSE RSSScrape(pages, 1, max_results, <<>>)
    /\ scrapePc' = "returned"
    /\ UNCHANGED <<scraper_type, pages, max_results>>
    /\ UNCHANGED <<aggVars, sumVars, qVars, procVars, serVars, postingVars>>

----------------------------------------------------------------------------
(***************************************************************************)
(* NewsBot.run (src/main.py): scrape, process, generate images, post.      *)
(* Items are named by their position in the list scrape_news returned.     *)
(***************************************************************************)

\* the platforms of the web UI (ui.py line 510), each of which
\* SocialMediaPosterFactory.create_poster has a poster class for
Platforms == {"twitter", "reddit", "forum", "instagram"}

\* the items of a run: an article with its body, and a title alone
RunItemKinds ==
    { NewItem(TitleText, LongContent, <<>>),
      NewItem(TitleText, <<>>, <<>>) }

\* the platforms for which a run has a poster
RunPlatforms == {"twitter", "reddit"}

\* processor.py lines 484-490: the list after one pass of the loop, for
\* how process_news_item ended on the item at position i
KeepAll(processed, i, ended) == Append(processed, i)

Kept(processed, i, ended) ==
    IF ended = "none" THEN processed ELSE Append(processed, i)

\* processor.py lines 471-492: process_news_items on the whole batch, from
\* position i on: the items as they are left, the list returned and the
\* items the gate dropped
RECURSIVE ProcessNewsItems(_, _, _, _, _, _)
ProcessNewsItems(items, pol, threshold, i, processed, dropped) ==
    IF i > Len(items)
    THEN {[items |-> items, processed |-> processed, dropped |-> dropped]}
    ELSE UNION {
        ProcessNewsItems([items EXCEPT ![i] = out.item], pol, threshold,
                         i + 1, Kept(processed, i, out.ended),
                         IF out.ended = "none" THEN dropped \cup {i}
                         ELSE dropped) :
        out \in ProcessNewsItemOutcomes(items[i], pol[i], threshold,
                                        DefaultMaxSentences,
                                        DefaultMinSentences,
                                        {"what", "why", "how"}) }

\* main.py lines 110-121: scrape_news has returned; with no items run
\* returns at once, otherwise the raw items are saved
RunScrape ==
    /\ runPc = "start"
    /\ runPc' = IF run_items = <<>> THEN "done" ELSE "process"
    /\ UNCHANGED <<run_items, run_polarity, run_threshold, run_posters,
                   run_dropped, run_processed, processed_snapshot,
                   image_calls, items_with_images, images_snapshot,
                   post_index, run_posted>>
    /\ UNCHANGED <<aggVars, sumVars, qVars, procVars, serVars, scrapeVars>>
    /\ UNCHANGED <<authVars, uiVars, fmtVars>>

\* main.py lines 124-128: process_news_items, then save_news_items of what
\* it returned
RunProcess ==
    /\ runPc = "process"
    /\ \E r \in ProcessNewsItems(run_items, run_polarity, run_threshold, 1,
                                 <<>>, {}) :
          /\ run_items' = r.items
          /\ run_processed' = r.processed
          /\ run_dropped' = r.dropped
          /\ processed_snapshot' = r.processed
    /\ runPc' = "images"
    /\ UNCHANGED <<run_polarity, run_threshold, run_posters, image_calls,
                   items_with_images, images_snapshot, post_index,
                   run_posted>>
    /\ UNCHANGED <<aggVars, sumVars, qVars, procVars, serVars, scrapeVars>>
    /\ UNCHANGED <<authVars, uiVars, fmtVars>>

\* image_generator.py lines 393-444 and main.py lines 131-135:
\* generate_image_for_news_item is called on every item of the list and
\* returns the item it was given, whether or not the generator raised
RunGenerateImages ==
    /\ runPc = "images"
    /\ image_calls' = {run_processed[k] : k \in DOMAIN run_processed}
    /\ items_with_images' = run_processed
    /\ images_snapshot' = run_processed
    /\ post_index' = 1
    /\ runPc' = "post"
    /\ UNCHANGED <<run_items, run_polarity, run_threshold, run_posters,
                   run_dropped, run_processed, processed_snapshot,
                   run_posted>>
    /\ UNCHANGED <<aggVars, sumVars, qVars, procVars, serVars, scrapeVars>>
    /\ UNCHANGED <<authVars, uiVars, fmtVars>>

\* main.py lines 140-150 and poster.py lines 701-729: one pass of the
\* posting loop: post_to_all_platforms calls post_to_platform for every
\* platform of poster_manager.posters
RunPostNext ==
    /\ runPc = "post"
    /\ post_index <= Len(items_with_images)
    /\ run_posted' = run_posted \cup
           {<<items_with_images[post_index], p>> : p \in run_posters}
    /\ post_index' = post_index + 1
    /\ UNCHANGED <<run_items, run_polarity, run_threshold, run_posters,
                   run_dropped, run_processed, processed_snapshot,
                   image_calls, items_with_images, images_snapshot, runPc>>
    /\ UNCHANGED <<aggVars, sumVars, qVars, procVars, serVars, scrapeVars>>
    /\ UNCHANGED <<authVars, uiVars, fmtVars>>

\* main.py line 153
RunReturn ==
    /\ runPc = "post"
    /\ post_index > Len(items_with_images)
    /\ runPc' = "done"
    /\ UNCHANGED <<run_items, run_polarity, run_threshold, run_posters,
                   run_dropped, run_processed, processed_snapshot,
                   image_calls, items_with_images, images_snapshot,
                   post_index, run_posted>>
    /\ UNCHANGED <<aggVars, sumVars, qVars, procVars, serVars, scrapeVars>>
    /\ UNCHANGED <<authVars, uiVars, fmtVars>>

RunIdle ==
    /\ run_items = <<>>
    /\ run_polarity = <<>>
    /\ run_threshold = DefaultSentimentThreshold
    /\ run_posters = {}
    /\ run_dropped = {}
    /\ run_processed = <<>>
    /\ processed_snapshot = <<>>
    /\ image_calls = {}
    /\ items_with_images = <<>>
    /\ images_snapshot = <<>>
    /\ post_index = 1
    /\ run_posted = {}
    /\ runPc = "start"

----------------------------------------------------------------------------
(***************************************************************************)
(* One poster (src/poster.py): authenticate() and post().  The handle is   *)
(* self.api of a TwitterPoster, self.reddit of a RedditPoster, self.client *)
(* of an InstagramPoster and self.auth_token of a SelfHostedForumPoster.   *)
(***************************************************************************)

\* the credentials of the poster's config: "none" when a required one is
\* empty, "password" when the required ones are set, and for the forum
\* "api_key" when forum_url and api_key are set
CredentialsOf(kind) ==
    IF kind = "forum" THEN {"none", "password", "api_key"}
    ELSE {"none", "password"}

AuthOutcome(result, h) == [result |-> result, handle |-> h]

\* poster.py lines 105-129, 216-240, 328-384 and 492-514: what
\* authenticate() can return, and the handle it leaves.  The twitter,
\* reddit and instagram posters assign the handle before the call that
\* verifies the credentials (verify_credentials, user.me, login), which
\* succeeds, or raises or returns a false value.  The forum poster assigns
\* auth_token from the api key, or from the answer of the login request.
AuthenticateOutcomes(kind, creds, h) ==
    IF creds = "none" THEN {AuthOutcome(FALSE, h)}
    ELSE IF kind = "forum"
    THEN IF creds = "api_key" THEN {AuthOutcome(TRUE, TRUE)}
         ELSE { AuthOutcome(TRUE, TRUE),     \* 200 with a token
                AuthOutcome(FALSE, FALSE),   \* 200 without a token
                AuthOutcome(FALSE, h) }      \* another status, or raised
    ELSE {AuthOutcome(TRUE, TRUE), AuthOutcome(FALSE, TRUE)}

\* what a post() did: whether it called authenticate() and what that
\* returned, whether it invoked the posting API, and the handle it leaves
PostOutcome(auth, called, h) ==
    [auth |-> auth, invoked |-> called, handle |-> h]

\* poster.py lines 154-196, 242-307, 386-477 and 550-578: post().  ready
\* is what the poster checks between authentication and the API call: the
\* subreddit of a RedditPoster is set, the image of an InstagramPoster
\* exists
PostOutcomes(kind, creds, h, ready) ==
    LET after == IF h THEN {[auth |-> "none", handle |-> h]}
                 ELSE {[auth |-> IF a.result THEN "true" ELSE "false",
                        handle |-> a.handle] :
                       a \in AuthenticateOutcomes(kind, creds, h)} IN
    { IF a.auth = "false" THEN PostOutcome(a.auth, FALSE, a.handle)
      ELSE IF kind \in {"reddit", "instagram"} /\ ~ready
      THEN PostOutcome(a.auth, FALSE, a.handle)
      ELSE PostOutcome(a.auth, TRUE, a.handle) : a \in after }

\* no post() yet
NoPost == [made |-> FALSE, auth |-> "none", invoked |-> FALSE,
           authenticated_before |-> FALSE]

\* a call of authenticate() by the poster's owner
Authenticate ==
    /\ \E a \in AuthenticateOutcomes(poster_kind, credentials, handle) :
          /\ handle' = a.handle
          /\ authenticated' = (authenticated \/ a.result)
          /\ last_authenticate' = IF a.result THEN "true" ELSE "false"
    /\ UNCHANGED <<poster_kind, credentials, last_post, api_invoked,
                   post_calls>>
    /\ UNCHANGED <<aggVars, sumVars, qVars, procVars, serVars, scrapeVars>>
    /\ UNCHANGED <<runVars, uiVars, fmtVars>>

\* a call of post()
Post ==
    /\ post_calls < MaxPosts
    /\ \E ready \in BOOLEAN :
       \E o \in PostOutcomes(poster_kind, credentials, handle, ready) :
          /\ handle' = o.handle
          /\ authenticated' = (authenticated \/ o.auth = "true")
          /\ last_authenticate' =
                 IF o.auth = "none" THEN last_authenticate ELSE o.auth
          /\ last_post' = [made |-> TRUE, auth |-> o.auth,
                           invoked |-> o.invoked,
                           authenticated_before |-> authenticated]
          /\ api_invoked' = (api_invoked \/ o.invoked)
    /\ post_calls' = post_calls + 1
    /\ UNCHANGED <<poster_kind, credentials>>
    /\ UNCHANGED <<aggVars, sumVars, qVars, procVars, serVars, scrapeVars>>
    /\ UNCHANGED <<runVars, uiVars, fmtVars>>

AuthIdle ==
    /\ poster_kind = "twitter"
    /\ credentials = "none"
    /\ handle = FALSE
    /\ authenticated = FALSE
    /\ last_authenticate = "none"
    /\ last_post = NoPost
    /\ api_invoked = FALSE
    /\ post_calls = 0

----------------------------------------------------------------------------
(***************************************************************************)
(* The web UI (src/ui.py): POST /platform/{platform} and POST /run on the  *)
(* global news_bot.                                                        *)
(***************************************************************************)

\* the entry of a platform in config["poster"]["platforms"]: none, or
\* one whose "enabled" is true or false
Entries == {"absent", "enabled", "disabled"}

Enabled(config) == {p \in Platforms : config[p] = "enabled"}

\* main.py lines 91-94: NewsBot.__init__ adds a poster for every platform
\* whose entry is enabled
InitialPosters(config) == Enabled(config)

\* ui.py lines 511-513: every platform that has an entry is enabled when
\* it is among selected_platforms and disabled otherwise
UpdateEnabled(config, selected) ==
    [p \in Platforms |->
        IF config[p] = "absent" THEN "absent"
        ELSE IF p \in selected THEN "enabled" ELSE "disabled"]

\* no POST /run yet
NoRun == [made |-> FALSE, reached_posting |-> FALSE, enabled |-> {},
          posted |-> {}]

\* ui.py lines 559-640 and main.py lines 155-171: save_platform stores the
\* entry, and when it is enabled add_platform creates the platform's poster
SavePlatform ==
    /\ \E p \in Platforms, enabled \in BOOLEAN :
          /\ platforms_config' =
                 [platforms_config EXCEPT
                     ![p] = IF enabled THEN "enabled" ELSE "disabled"]
          /\ posters' = IF enabled THEN posters \cup {p} ELSE posters
    /\ UNCHANGED last_run
    /\ UNCHANGED <<aggVars, sumVars, qVars, procVars, serVars, scrapeVars>>
    /\ UNCHANGED <<runVars, authVars, fmtVars>>

\* ui.py lines 504-536: run_bot updates the entries from the form and runs
\* the bot; main.py lines 140-142 and poster.py lines 701-729: when an item
\* reaches the posting loop, post_to_platform is called for every platform
\* of poster_manager.posters
RunBot ==
    /\ \E selected \in SUBSET Platforms, reached \in BOOLEAN :
          /\ platforms_config' = UpdateEnabled(platforms_config, selected)
          /\ last_run' =
                 [made |-> TRUE, reached_posting |-> reached,
                  enabled |-> Enabled(UpdateEnabled(platforms_config,
                                                    selected)),
                  posted |-> IF reached THEN posters ELSE {}]
    /\ UNCHANGED posters
    /\ UNCHANGED <<aggVars, sumVars, qVars, procVars, serVars, scrapeVars>>
    /\ UNCHANGED <<runVars, authVars, fmtVars>>

UiIdle ==
    /\ platforms_config = [p \in Platforms |-> "absent"]
    /\ posters = {}
    /\ last_run = NoRun

----------------------------------------------------------------------------
(***************************************************************************)
(* TwitterPoster.format_content and TwitterPoster.post (src/poster.py).    *)
(* A string is modelled by its length.                                     *)
(***************************************************************************)

\* poster.py line 97
max_length == 280

\* the lengths of the strings given to format_content
Lengths == {0, 1, 20, 140, 277, 280, 300}

\* len(s[:k]) for a string of n characters: a negative k counts from the
\* end
SliceLen(n, k) == IF k >= 0 THEN Min(n, k) ELSE Max(0, n + k)

\* poster.py lines 131-152: the length of what format_content returns for
\* a title, a content, a question and a url of the given lengths
FormatContentLen(t, c, q, u) ==
    LET url_length == IF u > 0 THEN u + 1 ELSE 0
        question_length == IF q > 0 THEN q + 2 ELSE 0
        available_length == max_length - url_length - question_length
        combined == t + 2 + c
        truncated == IF combined > available_length
                     THEN SliceLen(combined, available_length - 3) + 3
                     ELSE combined
    IN  truncated + (IF q > 0 THEN 2 + q ELSE 0)
                  + (IF u > 0 THEN 1 + u ELSE 0)

\* a call of format_content, as SocialMediaManager.post_to_platform makes
\* it (poster.py line 687)
FormatContent ==
    /\ fmtPc = "idle"
    /\ formatted_len' =
           FormatContentLen(title_len, content_len, question_len, url_len)
    /\ fmtPc' = "formatted"
    /\ UNCHANGED <<title_len, content_len, question_len, url_len,
                   status_len>>
    /\ UNCHANGED <<aggVars, sumVars, qVars, procVars, serVars, scrapeVars>>
    /\ UNCHANGED <<runVars, authVars, uiVars>>

\* poster.py lines 154-162: post formats its title, content and url with
\* an empty question, and sends the result as the status; post_to_platform
\* (line 690) gives it the formatted content as content
TwitterPost ==
    /\ fmtPc \in {"idle", "formatted"}
    /\ status_len' =
           FormatContentLen(title_len,
                            IF fmtPc = "formatted" THEN formatted_len
                            ELSE content_len,
                            0, url_len)
    /\ fmtPc' = "posted"
    /\ UNCHANGED <<title_len, content_len, question_len, url_len,
                   formatted_len>>
    /\ UNCHANGED <<aggVars, sumVars, qVars, procVars, serVars, scrapeVars>>
    /\ UNCHANGED <<runVars, authVars, uiVars>>

FmtIdle ==
    /\ title_len = 0
    /\ content_len = 0
    /\ question_len = 0
    /\ url_len = 0
    /\ formatted_len = 0
    /\ status_len = 0
    /\ fmtPc = "idle"

PostingIdle == RunIdle /\ AuthIdle /\ UiIdle /\ FmtIdle

ProcIdle ==
    /\ news_items = <<>>
    /\ polarity = <<>>
    /\ sentiment_threshold = DefaultSentimentThreshold
    /\ item_index = 1
    /\ processed_items = <<>>
    /\ original_items = <<>>
    /\ raised_items = {}
    /\ invoked = [i \in DOMAIN news_items |-> {}]
    /\ procPc = "idle"

AggIdle ==
    /\ scraper_results = <<>>
    /\ unique_news_items = <<>>
    /\ aggPc = "idle"

SumIdle ==
    /\ text = <<>>
    /\ max_sentences = DefaultMaxSentences
    /\ min_sentences = DefaultMinSentences
    /\ summary = <<>>
    /\ sumPc = "idle"

QIdle ==
    /\ question_text = <<>>
    /\ question_types = {"what", "why", "how"}
    /\ question = <<>>
    /\ filled_tiers = {}
    /\ qPc = "idle"

SerIdle ==
    /\ saved_items = <<>>
    /\ snapshot = <<>>
    /\ loaded_items = <<>>
    /\ serPc = "idle"

ScrapeIdle ==
    /\ scraper_type = "google"
    /\ pages = <<>>
    /\ max_results = 0
    /\ scraped_items = <<>>
    /\ scrapePc = "idle"

InitAgg ==
    /\ AggIdle /\ SumIdle /\ QIdle /\ ProcIdle /\ SerIdle /\ ScrapeIdle
    /\ PostingIdle
NextAgg == ScrapeNews
SpecAgg == InitAgg /\ [][NextAgg]_vars

InitSum ==
    /\ AggIdle
    /\ SerIdle
    /\ ScrapeIdle
    /\ PostingIdle
    /\ QIdle
    /\ ProcIdle
    /\ text \in Texts
    /\ max_sentences \in 0..MaxCfg
    /\ min_sentences \in 0..MaxCfg
    /\ summary = <<>>
    /\ sumPc = "idle"
NextSum == Summarize
SpecSum == InitSum /\ [][NextSum]_vars

InitQ ==
    /\ AggIdle
    /\ SerIdle
    /\ ScrapeIdle
    /\ PostingIdle
    /\ SumIdle
    /\ ProcIdle
    /\ question_text \in SeqsUpTo(QTokens, MaxQLen)
    /\ question_types \in QuestionTypeSets
    /\ question = <<>>
    /\ filled_tiers = {}
    /\ qPc = "idle"
NextQ == GenerateQuestion
SpecQ == InitQ /\ [][NextQ]_vars

\* the question types of the processor's configurations: the default, and
\* an empty list
ProcQuestionTypeSets == {{"what", "why", "how"}, {}}

InitProc ==
    /\ AggIdle
    /\ SerIdle
    /\ ScrapeIdle
    /\ PostingIdle
    /\ SumIdle
    /\ question_text = <<>>
    /\ question_types \in ProcQuestionTypeSets
    /\ question = <<>>
    /\ filled_tiers = {}
    /\ qPc = "idle"
    /\ news_items \in SeqsUpTo(ItemKinds, MaxBatch)
    /\ polarity \in {p \in [DOMAIN news_items -> Compounds \cup {0}] :
                        \A i \in DOMAIN news_items :
                            p[i] \in Polarities(news_items[i])}
    /\ sentiment_threshold \in Thresholds
    /\ item_index = 1
    /\ processed_items = <<>>
    /\ original_items = news_items
    /\ raised_items = {}
    /\ invoked = [i \in DOMAIN news_items |-> {}]
    /\ procPc = "idle"
NextProc == StartBatch \/ ProcessNext \/ ReturnProcessed
SpecProc == InitProc /\ [][NextProc]_vars

InitSer ==
    /\ AggIdle
    /\ ScrapeIdle
    /\ PostingIdle
    /\ SumIdle
    /\ QIdle
    /\ ProcIdle
    /\ saved_items \in SeqsUpTo(SavedItems, MaxSaved)
    /\ snapshot = <<>>
    /\ loaded_items = <<>>
    /\ serPc = "idle"
NextSer == SaveNewsItems \/ LoadNewsItems
SpecSer == InitSer /\ [][NextSer]_vars

InitScrape ==
    /\ AggIdle
    /\ SumIdle
    /\ QIdle
    /\ ProcIdle
    /\ SerIdle
    /\ PostingIdle
    /\ scraper_type \in {"google", "website", "rss"}
    /\ pages \in SeqsUpTo(Pages, MaxPages)
    \* GoogleNewsScraper makes one request
    /\ scraper_type = "google" => Len(pages) <= 1
    /\ max_results \in 0..MaxResults
    /\ scraped_items = <<>>
    /\ scrapePc = "idle"
NextScrape == Scrape
SpecScrape == InitScrape /\ [][NextScrape]_vars

ContentIdle ==
    AggIdle /\ SumIdle /\ QIdle /\ ProcIdle /\ SerIdle /\ ScrapeIdle

\* a run of NewsBot.run: what scrape_news returned, the scores of the
\* items, the threshold, and the posters the bot has
InitRun ==
    /\ ContentIdle
    /\ AuthIdle /\ UiIdle /\ FmtIdle
    /\ run_items \in SeqsUpTo(RunItemKinds, MaxRunItems)
    /\ run_polarity \in [DOMAIN run_items -> Compounds]
    /\ run_threshold \in Thresholds
    /\ run_posters \in SUBSET RunPlatforms
    /\ run_dropped = {}
    /\ run_processed = <<>>
    /\ processed_snapshot = <<>>
    /\ image_calls = {}
    /\ items_with_images = <<>>
    /\ images_snapshot = <<>>
    /\ post_index = 1
    /\ run_posted = {}
    /\ runPc = "start"
NextRun ==
    RunScrape \/ RunProcess \/ RunGenerateImages \/ RunPostNext \/ RunReturn
SpecRun == InitRun /\ [][NextRun]_vars

\* a poster as its constructor leaves it: no handle
InitAuth ==
    /\ ContentIdle
    /\ RunIdle /\ UiIdle /\ FmtIdle
    /\ poster_kind \in Platforms
    /\ credentials \in CredentialsOf(poster_kind)
    /\ handle = FALSE
    /\ authenticated = FALSE
    /\ last_authenticate = "none"
    /\ last_post = NoPost
    /\ api_invoked = FALSE
    /\ post_calls = 0
NextAuth == Authenticate \/ Post
SpecAuth == InitAuth /\ [][NextAuth]_vars

\* the web UI after init_bot: the bot has read a config file, which an
\* earlier session may have written
InitUi ==
    /\ ContentIdle
    /\ RunIdle /\ AuthIdle /\ FmtIdle
    /\ platforms_config \in [Platforms -> Entries]
    /\ posters = InitialPosters(platforms_config)
    /\ last_run = NoRun
NextUi == SavePlatform \/ RunBot
SpecUi == InitUi /\ [][NextUi]_vars

InitFmt ==
    /\ ContentIdle
    /\ RunIdle /\ AuthIdle /\ UiIdle
    /\ title_len \in Lengths
    /\ content_len \in Lengths
    /\ question_len \in Lengths
    /\ url_len \in Lengths
    /\ formatted_len = 0
    /\ status_len = 0
    /\ fmtPc = "idle"
NextFmt == FormatContent \/ TwitterPost
SpecFmt == InitFmt /\ [][NextFmt]_vars

----------------------------------------------------------------------------
(* Claims about scrape_news, checked under SpecAgg                         *)

\* the candidate items in the order scrape_news meets them: the lists the
\* scrapers returned, in registration order
Candidates ==
    Concat([k \in DOMAIN scraper_results |-> scraper_results[k].items])

\* the index in the candidates of the first one with url u
FirstIndex(u) ==
    CHOOSE k \in DOMAIN Candidates :
        /\ Candidates[k].url = u
        /\ \A j \in 1..(k - 1) : Candidates[j].url # u

\* C1: of the candidates that share a url, the output of scrape_news holds
\* exactly one, and it is the first of them in registration order and then
\* list order, whatever its source and published_date.
C1_DedupKeepsFirst ==
    aggPc = "returned" =>
        \A c \in DOMAIN Candidates :
            LET u == Candidates[c].url IN
            /\ Cardinality({k \in DOMAIN unique_news_items :
                                unique_news_items[k].url = u}) = 1
            /\ \E k \in DOMAIN unique_news_items :
                    unique_news_items[k] = Candidates[FirstIndex(u)]

\* two scrapers returned the same url, the later one with a newer date
C1_Witness ==
    /\ aggPc = "returned"
    /\ \E i, j \in DOMAIN Candidates :
           /\ i < j
           /\ Candidates[i].url = Candidates[j].url
           /\ Candidates[i].source # Candidates[j].source
           /\ Candidates[i].published_date < Candidates[j].published_date

\* C2: the output of scrape_news is non-increasing in published_date, and
\* two kept items with the same published_date are in the order in which
\* they were met in the input.
C2_SortedNewestFirstStable ==
    aggPc = "returned" =>
        \A i, j \in DOMAIN unique_news_items :
            i < j =>
                /\ unique_news_items[i].published_date
                       >= unique_news_items[j].published_date
                /\ unique_news_items[i].published_date
                       = unique_news_items[j].published_date
                   => FirstIndex(unique_news_items[i].url)
                         < FirstIndex(unique_news_items[j].url)

\* the input held an older item before a newer one, and two of the kept
\* items share a date
C2_Witness ==
    /\ aggPc = "returned"
    /\ \E i, j \in DOMAIN Candidates :
           /\ i < j
           /\ Candidates[i].url # Candidates[j].url
           /\ Candidates[i].published_date < Candidates[j].published_date
    /\ \E i, j \in DOMAIN unique_news_items :
           /\ i < j
           /\ unique_news_items[i].published_date
                  = unique_news_items[j].published_date

\* the results of the scrapers that did not raise
RECURSIVE NonFailing(_)
NonFailing(results) ==
    IF results = <<>> THEN <<>>
    ELSE IF Head(results).raised THEN NonFailing(Tail(results))
    ELSE <<Head(results)>> \o NonFailing(Tail(results))

C20_UndatedSortsFirst ==
    aggPc = "returned" =>
        \A i, j \in DOMAIN unique_news_items :
            (/\ i < j
             /\ unique_news_items[i].dated
             /\ unique_news_items[i].published_date
                    # unique_news_items[j].published_date)
                => unique_news_items[j].dated

----------------------------------------------------------------------------
(* Claims about TextSummarizer.process, checked under SpecSum              *)

\* the number of sentences of a text
SentenceCount(t) == Len(sent_tokenize(t))

\* the number of content words (alphanumeric, not a stop-word) of a sentence
ContentWordCount(sentence) == Len(ContentWords(sentence))

\* some sentence of the input text has three or more content words
HasContentSentence ==
    \E k \in DOMAIN sent_tokenize(text) :
        ContentWordCount(sent_tokenize(text)[k]) >= 3

\* C3 as claimed: for every max_sentences and min_sentences the summary has
\* at most max_sentences sentences.
C3_AtMostMaxSentences_AnyConfig ==
    sumPc = "returned" => SentenceCount(summary) <= max_sentences

\* C3 amended: when 0 <= min_sentences <= max_sentences, the summary has at
\* most max_sentences sentences.
C3_AtMostMaxSentences ==
    (sumPc = "returned" /\ min_sentences <= max_sentences)
        => SentenceCount(summary) <= max_sentences

\* a text longer than max_sentences was cut down to exactly max_sentences
C3_Witness ==
    /\ sumPc = "returned"
    /\ min_sentences <= max_sentences
    /\ max_sentences >= 2
    /\ SentenceCount(text) > max_sentences
    /\ SentenceCount(summary) = max_sentences

\* C4: a text of at most min_sentences sentences is returned as it is.
C4_ShortTextUnchanged ==
    (sumPc = "returned" /\ SentenceCount(text) <= min_sentences)
        => summary = text

\* a text of min_sentences >= 2 sentences, with line breaks between them
C4_Witness ==
    /\ sumPc = "returned"
    /\ SentenceCount(text) = min_sentences
    /\ min_sentences >= 2
    /\ \E k \in DOMAIN text : text[k] = "\n"
    /\ summary = text

\* C5 as claimed: a non-empty text with a sentence of three or more content
\* words has a non-empty summary.
C5_SummaryNonEmpty_AnyConfig ==
    (sumPc = "returned" /\ text # <<>> /\ HasContentSentence)
        => summary # <<>>

\* C5 amended: with max_sentences >= 1 and min_sentences >= 1, a non-empty
\* text with a sentence of three or more content words has a non-empty
\* summary.
C5_SummaryNonEmpty ==
    (/\ sumPc = "returned"
     /\ max_sentences >= 1
     /\ min_sentences >= 1
     /\ text # <<>>
     /\ HasContentSentence)
        => summary # <<>>

\* a text of more than min_sentences sentences, one of them with three
\* content words, was summarized by selection
C5_Witness ==
    /\ sumPc = "returned"
    /\ max_sentences >= 1
    /\ min_sentences >= 1
    /\ SentenceCount(text) > min_sentences
    /\ HasContentSentence
    /\ summary # <<>>
    /\ summary # text

\* C6 as claimed, for the configurations 1 <= min_sentences <=
\* max_sentences: when the text has more than min_sentences sentences and
\* none has three content words, the summary is the first min_sentences
\* sentences; and a non-empty text with a sentence never has an empty
\* summary.
C6_FallbackFirstSentences ==
    (sumPc = "returned" /\ 1 <= min_sentences /\ min_sentences <= max_sentences)
    =>  /\ (SentenceCount(text) > min_sentences /\ ~HasContentSentence)
               => summary = JoinSpace(Take(sent_tokenize(text), min_sentences))
        /\ (text # <<>> /\ SentenceCount(text) >= 1) => summary # <<>>

\* the sentences of sentences at the indices of the set S, in index order
InOrder(sentences, S) ==
    LET idx == SelectSeq([k \in DOMAIN sentences |-> k], LAMBDA k : k \in S)
    IN [k \in DOMAIN idx |-> sentences[idx[k]]]

\* C13: for a text of more than min_sentences sentences, the summary is
\* some of the input sentences, each taken at most once, in the order they
\* have in the text, with a single space between each two.
C13_SelectionInDocumentOrder ==
    (sumPc = "returned" /\ SentenceCount(text) > min_sentences)
        => \E S \in SUBSET DOMAIN sent_tokenize(text) :
               summary = JoinSpace(InOrder(sent_tokenize(text), S))

\* two sentences were selected, the later one with the higher score, from
\* a text with line breaks between its sentences
C13_Witness ==
    /\ sumPc = "returned"
    /\ SentenceCount(text) > min_sentences
    /\ \E k \in DOMAIN text : text[k] = "\n"
    /\ LET sentences == sent_tokenize(text) IN
       \E i, j \in DOMAIN sentences :
           /\ i < j
           /\ ~TooShort(SentenceWords(sentences[i]))
           /\ KeyGreater(SentenceScore(sentences[j], ContentWords(text)),
                         SentenceScore(sentences[i], ContentWords(text)))
           /\ summary = JoinSpace(<<sentences[i], sentences[j]>>)

\* the mean content-word frequency of a sentence, as a fraction: the sum of
\* the whole-text frequencies of its content words over their number (0
\* for a sentence without content words)
MeanContentWordFrequency(sentence, words) ==
    IF ContentWordCount(sentence) = 0 THEN <<0, 1>>
    ELSE <<SumFreq(ContentWords(sentence), words), ContentWordCount(sentence)>>

\* the scored sentences, keyed by their mean content-word frequency
RECURSIVE ReferenceScores(_, _, _)
ReferenceScores(sentences, words, i) ==
    IF i > Len(sentences) THEN <<>>
    ELSE (IF TooShort(SentenceWords(sentences[i])) THEN <<>>
          ELSE <<[key |-> MeanContentWordFrequency(sentences[i], words),
                  val |-> i]>>)
         \o ReferenceScores(sentences, words, i + 1)

\* the summary a ranking by mean content-word frequency selects
ReferenceSummary(t, maxS, minS) ==
    LET sentences == sent_tokenize(t)
        top == Take(Vals(SortedReverse(
                        ReferenceScores(sentences, ContentWords(t), 1))),
                    NumSentences(Len(sentences), maxS, minS))
    IN JoinSpace(InOrder(sentences, {top[k] : k \in DOMAIN top}))

\* C21 as claimed: for a text of more than min_sentences sentences, the
\* score of every scored sentence with a content word is the sum of the
\* whole-text frequencies of its content words divided by the number of its
\* content words, and the summary is the one a ranking by that mean selects.
C21_ScoreIsMeanContentWordFrequency ==
    (sumPc = "returned" /\ SentenceCount(text) > min_sentences)
        => /\ \A k \in DOMAIN sent_tokenize(text) :
                  LET sentence == sent_tokenize(text)[k]
                      score == SentenceScore(sentence, ContentWords(text))
                      mean == MeanContentWordFrequency(sentence,
                                                       ContentWords(text)) IN
                  (~TooShort(SentenceWords(sentence))
                   /\ ContentWordCount(sentence) > 0)
                      => score[1] * mean[2] = mean[1] * score[2]
           /\ summary = ReferenceSummary(text, max_sentences, min_sentences)

\* C22 as claimed: in a summary made by the selection step (the text has
\* more than min_sentences sentences) every sentence has three or more
\* content words, however many stop-words it has.
C22_ShortContentNeverSelected ==
    (sumPc = "returned" /\ SentenceCount(text) > min_sentences)
        => \A k \in DOMAIN sent_tokenize(summary) :
               ContentWordCount(sent_tokenize(summary)[k]) >= 3

\* the number of sentences of the text that the scoring loop scores
Scoreable ==
    Cardinality({k \in DOMAIN sent_tokenize(text) :
                    ~TooShort(SentenceWords(sent_tokenize(text)[k]))})

\* C23: for a text of n > min_sentences sentences, the summary has exactly
\* min(max_sentences, max(min_sentences, n // 4)) sentences when that many
\* sentences are scored, and otherwise as many as are scored.
C23_NumberSelected ==
    (sumPc = "returned" /\ SentenceCount(text) > min_sentences)
        => LET n == SentenceCount(text)
               floor == IF min_sentences >= n \div 4 THEN min_sentences
                        ELSE n \div 4
               num == IF max_sentences <= floor THEN max_sentences ELSE floor
           IN SentenceCount(summary)
                  = (IF Scoreable >= num THEN num ELSE Scoreable)

\* a text of four sentences, three of them scored, with the default
\* configuration: one sentence was selected
C23_Witness ==
    /\ sumPc = "returned"
    /\ max_sentences = DefaultMaxSentences
    /\ min_sentences = DefaultMinSentences
    /\ SentenceCount(text) = 4
    /\ Scoreable = 3
    /\ SentenceCount(summary) = 1

\* the sentence at index i of the text is scored at least as high as the
\* one at index j
ScoredAtLeast(i, j) ==
    ~KeyGreater(SentenceScore(sent_tokenize(text)[j], ContentWords(text)),
                SentenceScore(sent_tokenize(text)[i], ContentWords(text)))

\* C24: for a text of more than min_sentences sentences, the summary is
\* made of scored sentences such that no scored sentence left out has a
\* higher score than a selected one, and of two scored sentences of equal
\* score of which one is left out, the selected one is the earlier.
C24_StableSelection ==
    (sumPc = "returned" /\ SentenceCount(text) > min_sentences)
        => LET sentences == sent_tokenize(text)
               scored == {k \in DOMAIN sentences :
                             ~TooShort(SentenceWords(sentences[k]))}
           IN \E S \in SUBSET scored :
                 /\ summary = JoinSpace(InOrder(sentences, S))
                 /\ \A i \in S : \A j \in scored \ S :
                        /\ ScoredAtLeast(i, j)
                        /\ ScoredAtLeast(j, i) => i < j

\* two different sentences have the same score, the later one was left
\* out and the earlier one is the summary
C24_Witness ==
    /\ sumPc = "returned"
    /\ SentenceCount(text) > min_sentences
    /\ LET sentences == sent_tokenize(text) IN
       \E i, j \in DOMAIN sentences :
           /\ i < j
           /\ sentences[i] # sentences[j]
           /\ ~TooShort(SentenceWords(sentences[i]))
           /\ ~TooShort(SentenceWords(sentences[j]))
           /\ ScoredAtLeast(i, j)
           /\ ScoredAtLeast(j, i)
           /\ summary = sentences[i]

----------------------------------------------------------------------------
(* Claims about QuestionGenerator.process, checked under SpecQ             *)

\* the last character of the string is "?"
EndsWithQuestionMark(q) == q # <<>> /\ q[Len(q)] = "?"

\* C7: for a non-empty text, whatever entity, noun, question type and
\* template are chosen and whatever question types are configured, the
\* question that process returns ends with "?".
C7_QuestionEndsWithMark ==
    (qPc = "returned" /\ question_text # <<>>)
        => EndsWithQuestionMark(question)

\* a text without entities got a noun question of a type the code has no
\* templates for
C7_Witness ==
    /\ qPc = "returned"
    /\ Entities(question_text) = <<>>
    /\ NounsOf(question_text) # <<>>
    /\ question_types = {"who"}
    /\ question # <<>>

----------------------------------------------------------------------------
(* Claims about ContentProcessorManager.process_news_items, checked under  *)
(* SpecProc                                                                *)

\* the item at position i of the batch is in the returned list
InOutput(i) == \E k \in DOMAIN processed_items : processed_items[k] = i

\* C8: an item whose compound score is below the threshold is absent from
\* the returned list, and an item whose score is at or above the threshold
\* is in it.
C8_GateDropsBelowThreshold ==
    procPc = "returned" =>
        \A i \in DOMAIN news_items :
            /\ polarity[i] < sentiment_threshold => ~InOutput(i)
            /\ polarity[i] >= sentiment_threshold => InOutput(i)

\* with the threshold -0.5, an item at -0.8 was dropped and one at -0.3 and
\* one at -0.5 were kept
C8_Witness ==
    /\ procPc = "returned"
    /\ sentiment_threshold = DefaultSentimentThreshold
    /\ \E i, j \in DOMAIN news_items :
           /\ polarity[i] = -8 /\ ~InOutput(i)
           /\ polarity[j] \in {-3, -5} /\ InOutput(j)

\* the fields process_news_item fills are as they were given
Unenriched(i) ==
    /\ news_items[i].summary = original_items[i].summary
    /\ news_items[i].question = original_items[i].question
    /\ news_items[i].sentiment = original_items[i].sentiment
    /\ news_items[i].processed = original_items[i].processed

\* C10 as claimed: when the processing of an item raises, every later item
\* is still processed, and the failing item is absent from the output or
\* in it with summary, question, sentiment and processed as they were.
C10_FailingItemSkippedOrUnenriched ==
    procPc = "returned" =>
        \A i \in raised_items :
            /\ \A j \in DOMAIN news_items :
                   j > i => news_items[j].sentiment # NoAttribute
            /\ ~InOutput(i) \/ Unenriched(i)

\* process_news_item returned the item at position i of the batch
Survived(i) == news_items[i].processed

\* C14 as claimed: an item that process_news_item returned has an empty
\* summary only if its content and its title are both empty.
C14_SummaryEmptyOnlyIfNoText ==
    \A i \in DOMAIN news_items :
        (Survived(i) /\ news_items[i].summary = <<>>)
            => (news_items[i].content = <<>> /\ news_items[i].title = <<>>)

\* C15 as claimed: an item that process_news_item returned has a summary
\* of at most max_sentences sentences, whether the summarizer made the
\* summary, the adapter supplied it, or it was filled from the title.
C15_SummaryAtMostMaxSentences ==
    \A i \in DOMAIN news_items :
        Survived(i) => SentenceCount(news_items[i].summary) <= max_sentences

\* C16 as claimed: an item on which process_news_item ran the question
\* generator and set processed = True has a question that ends with "?",
\* also when the item has no entity, no noun, or no text at all.
C16_ProcessedQuestionEndsWithMark ==
    \A i \in DOMAIN news_items :
        news_items[i].processed => EndsWithQuestionMark(news_items[i].question)

\* C17 as claimed: the returned list never holds an item with processed =
\* False, and when process_news_items has returned every item of the batch
\* is either in the list with processed = True or was dropped by the gate
\* and is not in the list.
C17_TerminalStates ==
    /\ \A k \in DOMAIN processed_items :
           news_items[processed_items[k]].processed
    /\ procPc = "returned" =>
           \A i \in DOMAIN news_items :
               \/ InOutput(i) /\ news_items[i].processed
               \/ ~InOutput(i) /\ polarity[i] < sentiment_threshold

\* the gate rejected the item at position i of the batch
Rejected(i) == i < item_index /\ polarity[i] < sentiment_threshold

\* C25: on an item that the gate rejects neither the summarizer nor the
\* question generator is called, and its summary, its question and its
\* processed flag are as they were given.
C25_GateBeforeProcessors ==
    \A i \in DOMAIN news_items :
        Rejected(i) =>
            /\ invoked[i] = {}
            /\ news_items[i].summary = original_items[i].summary
            /\ news_items[i].question = original_items[i].question
            /\ news_items[i].processed = original_items[i].processed

\* an article with a body and no summary was rejected, and an item after
\* it was summarized and given a question
C25_Witness ==
    /\ procPc = "returned"
    /\ \E i, j \in DOMAIN news_items :
           /\ i < j
           /\ Rejected(i)
           /\ SummarizerCalled(original_items[i])
           /\ news_items[i].sentiment # NoAttribute
           /\ invoked[j] = {"summarizer", "question_generator"}

\* the fields that processing may not change are the same in both items
SameFrame(a, b) ==
    /\ a.title = b.title
    /\ a.url = b.url
    /\ a.source = b.source
    /\ a.published_date = b.published_date
    /\ a.content = b.content
    /\ a.image_url = b.image_url

\* C26: every item of the batch keeps its title, url, source,
\* published_date, content and image_url; the items the loop has not
\* reached are as they were given, and a pass of the loop changes no item
\* but the one it processes; the returned list holds items of the batch in
\* the order of the batch, each at most once.
C26_PerItemFrame ==
    /\ [](/\ \A i \in DOMAIN news_items :
                /\ SameFrame(news_items[i], original_items[i])
                /\ i >= item_index => news_items[i] = original_items[i]
          /\ \A k, l \in DOMAIN processed_items :
                k < l => processed_items[k] < processed_items[l])
    /\ [][\A i \in DOMAIN news_items :
              i # item_index => news_items'[i] = news_items[i]]_vars

\* in a batch of two items the first was summarized and given a question,
\* and the second was processed after it
C26_Witness ==
    /\ procPc = "returned"
    /\ Len(news_items) >= 2
    /\ invoked[1] = {"summarizer", "question_generator"}
    /\ news_items[1].summary # original_items[1].summary
    /\ invoked[2] # {}
    /\ processed_items = <<1, 2>>

----------------------------------------------------------------------------
(* Claims about the snapshots, checked under SpecSer                       *)

\* C12: for every record d that to_dict produced, from_dict(d).to_dict()
\* equals d field for field: the published_date string is that of the same
\* instant, processed and the string fields are what they were.
C12_RoundTrip ==
    serPc = "loaded" =>
        /\ Len(loaded_items) = Len(snapshot)
        /\ \A k \in DOMAIN snapshot :
               /\ to_dict(loaded_items[k]) = snapshot[k]
               /\ loaded_items[k].published_date = saved_items[k].published_date

\* a processed item with an aware datetime and one with microsecond 0 went
\* through a file
C12_Witness ==
    /\ serPc = "loaded"
    /\ \E k \in DOMAIN saved_items :
           /\ saved_items[k].processed
           /\ saved_items[k].published_date.utcoffset # <<>>
    /\ \E k \in DOMAIN saved_items :
           saved_items[k].published_date.microsecond = 0

\* C19 as claimed: the record written for an item on which the gate stored
\* a sentiment has a sentiment field, and the item loaded from the record
\* has the sentiment of the item that was saved.
C19_SnapshotKeepsSentiment ==
    /\ serPc \in {"saved", "loaded"} =>
           \A k \in DOMAIN saved_items :
               saved_items[k].sentiment # NoAttribute
                   => "sentiment" \in DOMAIN snapshot[k]
    /\ serPc = "loaded" =>
           \A k \in DOMAIN saved_items :
               loaded_items[k].sentiment = saved_items[k].sentiment

----------------------------------------------------------------------------
(* Claims about the adapters, checked under SpecScrape                     *)

\* C18 as claimed: for each of the three adapters and every max_results >=
\* 0, scrape returns at most max_results items.
C18_AtMostMaxResults ==
    scrapePc = "returned" => Len(scraped_items) <= max_results

----------------------------------------------------------------------------
\* SpecRun claims

\* the items of a list of references
ItemsOf(list) == {list[k] : k \in DOMAIN list}

\* C27: in every run, an item the sentiment gate dropped is in neither the
\* processed snapshot nor the with-images snapshot, is not given to image
\* generation and is posted to no platform; every item posted is an item
\* scrape_news returned and is in the list process_news_items returned.
C27_DroppedItemsExcluded ==
    [](/\ \A i \in run_dropped :
             /\ i \notin ItemsOf(processed_snapshot)
             /\ i \notin ItemsOf(images_snapshot)
             /\ i \notin image_calls
             /\ \A p \in Platforms : <<i, p>> \notin run_posted
       /\ \A post \in run_posted :
             /\ post[1] \in DOMAIN run_items
             /\ post[1] \in ItemsOf(run_processed)
             /\ post[1] \notin run_dropped)

\* a run of two items ended: the gate dropped one, and the other was
\* posted to two platforms
C27_Witness ==
    /\ runPc = "done"
    /\ Len(run_items) = 2
    /\ Cardinality(run_dropped) = 1
    /\ Cardinality(run_posted) = 2
    /\ Len(images_snapshot) = 1

----------------------------------------------------------------------------
\* SpecAuth claims

\* C28: the posting API is invoked only after an authenticate() call on
\* the poster has returned True, and a post() made while none has returned
\* True calls authenticate() itself.
C28_AuthenticateBeforePosting ==
    /\ api_invoked => authenticated
    /\ (last_post.made /\ ~last_post.authenticated_before) =>
           last_post.auth # "none"

----------------------------------------------------------------------------
\* SpecUi claims

\* C29: a run in which an item reaches the posting loop posts to exactly
\* the platforms whose entry is enabled at the time of the run.
C29_PostsToEnabledPlatforms ==
    (last_run.made /\ last_run.reached_posting) =>
        last_run.posted = last_run.enabled

----------------------------------------------------------------------------
\* SpecFmt claims

\* C30: what format_content returns, and the status text post sends, are
\* at most max_length characters long.
C30_AtMostMaxLength ==
    /\ fmtPc = "formatted" => formatted_len <= max_length
    /\ fmtPc = "posted" => status_len <= max_length

====
